---- MODULE Spec2Model ----
(***************************************************************************)
(* Model of Assets/Plugins/Android/tflite_unity.cpp: the JNI bridge that   *)
(* wraps one TensorFlow Lite interpreter per opaque jlong handle.          *)
(*                                                                         *)
(* The native heap is a map from addresses to TFLiteContext objects, the   *)
(* JNI pin table is the set of byte arrays obtained with                   *)
(* GetByteArrayElements and not yet released, and every exported function  *)
(* is one atomic action (the bridge is synchronous, one call at a time).   *)
(*                                                                         *)
(* Undefined behaviour is a nondeterministic choice: a dereference of a    *)
(* handle that is not a live context, an index past inputs()/outputs()     *)
(* handed to input_tensor/output_tensor (the library indexes the vector    *)
(* unchecked), and a read of the model bytes after the byte array has been *)
(* released, each may fault the process or yield some other value.         *)
(*                                                                         *)
(* Caller obligations that the code does not check and the model's         *)
(* environment honours: a copy length never exceeds the resolved tensor or *)
(* the caller's array (LenOK), and destroy is applied to the sentinel or   *)
(* to a live handle only.                                                  *)
(***************************************************************************)
EXTENDS Integers, Sequences, FiniteSets, TLC

MaxAddr == 2
MaxVal == 1
MaxLen == 2

Sentinel == 0

Addr == 1..MaxAddr
Handle == 0..MaxAddr
Val == 0..MaxVal
Filler == MaxVal + 1
Idx == -1..(MaxLen - 1)

VARIABLES heap, pinned, owned, call, crashed, room, seq, memo

vars == <<heap, pinned, owned, call, crashed, room, seq, memo>>

----------------------------------------------------------------------------
(* The model files a caller may hand to createInterpreter, and what the    *)
(* library makes of each.                                                  *)

ModelBytes == {"garbage", "unknown_op", "unallocatable", "A", "B"}

Parses(m) == m # "garbage"
Builds(m) == m # "unknown_op"
Allocates(m) == m # "unallocatable"

InDims(m) == IF m = "A" THEN << <<2, 1>> >> ELSE << <<1>>, <<1>> >>
OutDims(m) == IF m = "A" THEN << <<1>> >> ELSE << <<1, 2>> >>

RECURSIVE Product(_)
Product(d) == IF d = <<>> THEN 1 ELSE Head(d) * Product(Tail(d))

Weight(m) == IF m = "A" THEN 1 ELSE 0

Wrap(x) == x % (MaxVal + 1)

Engine(m, w, in) ==
    IF m = "A"
    THEN << << Wrap(w + in[1][1] + in[1][2]) >> >>
    ELSE << << Wrap(w + in[1][1]), Wrap(w + in[2][1]) >> >>

----------------------------------------------------------------------------
(* struct TFLiteContext and the native heap.                               *)

Free == [model |-> "free", in |-> <<>>, out |-> <<>>, buf |-> 0]

TFLiteContext(m, in, out, b) == [model |-> m, in |-> in, out |-> out, buf |-> b]

Live == {a \in Addr : heap[a].model # "free"}

NumIn(ctx) == Len(ctx.in)
NumOut(ctx) == Len(ctx.out)

TensorOf(d) == [1..Product(d) -> Val]

Tensors(dims) ==
    IF Len(dims) = 1
    THEN {<<x>> : x \in TensorOf(dims[1])}
    ELSE {<<x, y>> : x \in TensorOf(dims[1]), y \in TensorOf(dims[2])}

Zeros(dims) == [j \in 1..Len(dims) |-> [k \in 1..Product(dims[j]) |-> 0]]

FloatArrays == [1..MaxLen -> Val]

Filled(cap) == [j \in 1..cap |-> Filler]

Blank(cap) == [j \in 1..cap |-> 0]

NoCall ==
    [op |-> "none", h |-> 0, idx |-> 0, ret |-> 0, dst |-> <<>>, uaf |-> FALSE,
     path |-> "", wr |-> {}]

Idle == [h |-> 0, i |-> 0, data |-> <<>>, o |-> 0, stage |-> 0]

NoMemo == [h |-> 0, i |-> 0, data |-> <<>>, o |-> 0, buf |-> <<>>]

(* room is how many contexts the native heap can hold before operator new  *)
(* throws std::bad_alloc.                                                  *)
InitHeap(r) ==
    /\ heap = [a \in Addr |-> Free]
    /\ room = r
    /\ pinned = {}
    /\ owned = {}
    /\ call = NoCall
    /\ crashed = FALSE
    /\ seq = Idle
    /\ memo = NoMemo

Init == InitHeap(1)

InitPair == InitHeap(MaxAddr)

----------------------------------------------------------------------------
(* What an exported function hands back: its return value (0 for a void    *)
(* function), the caller's array after the call, and whether the process   *)
(* survived.                                                               *)

Return(op, h, idx, ret, dst) ==
    /\ call' = [NoCall EXCEPT !.op = op, !.h = h, !.idx = idx, !.ret = ret, !.dst = dst]
    /\ crashed' = FALSE

(* reinterpret_cast<TFLiteContext*>(interpreterPtr) followed by context->  *)
(* on a value that is no live context: the read is undefined; the process  *)
(* faults, or the call goes on with whatever the memory holds and returns  *)
(* the value g.                                                            *)
Wild(op, h, idx, dst, fault, g) ==
    /\ call' = [NoCall EXCEPT !.op = op, !.h = h, !.idx = idx, !.ret = g,
                              !.dst = dst, !.uaf = TRUE]
    /\ crashed' = fault
    /\ UNCHANGED <<heap, pinned, owned>>

----------------------------------------------------------------------------
(* createInterpreter                                                       *)

ThrowPoints == {"none", "make_unique", "BuildFromBuffer", "builder", "AllocateTensors"}

FreshBuf(p) == CHOOSE b \in 1..(Cardinality(p) + 1) : b \notin p

GetByteArrayElements(p, b) == p \cup {b}

ReleaseByteArrayElements(p, b) == p \ {b}

(* The path the try block takes: throwAt is the library call that throws   *)
(* std::bad_alloc, if any.                                                 *)
CreatePath(m, throwAt) ==
    IF throwAt = "make_unique" THEN "catch"
    ELSE IF throwAt = "BuildFromBuffer" THEN "catch"
    ELSE IF ~Parses(m) THEN "no_model"
    ELSE IF throwAt = "builder" THEN "catch"
    ELSE IF ~Builds(m) THEN "no_interpreter"
    ELSE IF throwAt = "AllocateTensors" THEN "catch"
    ELSE IF ~Allocates(m) THEN "alloc_failed"
    ELSE "ok"

PinnedAfterLeak(path, p, b) ==
    IF path = "alloc_failed" THEN p ELSE ReleaseByteArrayElements(p, b)

(* Every exit of the try block releases the byte array (JNI_ABORT).        *)
PinnedAfter(path, p, b) == ReleaseByteArrayElements(p, b)

(* context.release() hands the object to the caller on the success path;   *)
(* on every other exit the unique_ptr destroys it.                         *)
ContextKept(path) == path = "ok"

createInterpreter(m, pinOK, throwAt, a, in0, out0) ==
    IF ~pinOK
    THEN /\ call' = [NoCall EXCEPT !.op = "create", !.path = "no_bytes"]
         /\ crashed' = FALSE
         /\ UNCHANGED <<heap, pinned, owned>>
    ELSE LET b == FreshBuf(pinned)
             p1 == GetByteArrayElements(pinned, b)
             path == CreatePath(m, throwAt)
             ret == IF path = "ok" THEN a ELSE Sentinel
         IN /\ pinned' = PinnedAfter(path, p1, b)
            /\ heap' = IF ContextKept(path)
                       THEN [heap EXCEPT ![a] = TFLiteContext(m, in0, out0, b)]
                       ELSE heap
            /\ call' = [NoCall EXCEPT !.op = "create", !.ret = ret, !.path = path]
            /\ owned' = IF ret # Sentinel THEN owned \cup {ret} ELSE owned
            /\ crashed' = FALSE

(* operator new picks any address not in use; with room for no further     *)
(* context make_unique throws.  Tensor buffers are uninitialised after     *)
(* AllocateTensors.  What a failing call never reads is drawn once.        *)
SomeFree == IF Live = Addr THEN Addr ELSE {CHOOSE a \in Addr \ Live : TRUE}

CreateCall(M) ==
    /\ ~crashed
    /\ \E m \in M, pinOK \in BOOLEAN, throwAt \in ThrowPoints :
        /\ (Cardinality(Live) >= room) => (~pinOK \/ throwAt = "make_unique")
        /\ ~pinOK => (throwAt = "none" /\ m = "garbage")
        /\ IF pinOK /\ CreatePath(m, throwAt) = "ok"
           THEN \E a \in Addr \ Live :
                \E in0 \in Tensors(InDims(m)), out0 \in Tensors(OutDims(m)) :
                   createInterpreter(m, pinOK, throwAt, a, in0, out0)
           ELSE \E a \in SomeFree :
                   createInterpreter(m, pinOK, throwAt, a, Zeros(InDims(m)),
                                     Zeros(OutDims(m)))

----------------------------------------------------------------------------
(* destroyInterpreter                                                      *)

destroyInterpreter(h) ==
    /\ heap' = IF h # Sentinel THEN [heap EXCEPT ![h] = Free] ELSE heap
    /\ owned' = owned \ {h}
    /\ call' = [NoCall EXCEPT !.op = "destroy", !.h = h]
    /\ crashed' = FALSE
    /\ UNCHANGED pinned

DestroyCall ==
    /\ ~crashed
    /\ \E h \in {Sentinel} \cup Live : destroyInterpreter(h)

----------------------------------------------------------------------------
(* Tensors of a context, and the library's accessors.                      *)

NullT == [kind |-> "null", k |-> 0]
FaultT == [kind |-> "fault", k |-> 0]

TensorRefs(ctx) ==
    {[kind |-> "in", k |-> j] : j \in 1..NumIn(ctx)}
        \cup {[kind |-> "out", k |-> j] : j \in 1..NumOut(ctx)}

TensorData(ctx, t) == IF t.kind = "in" THEN ctx.in[t.k] ELSE ctx.out[t.k]

TensorDims(ctx, t) ==
    IF t.kind = "in" THEN InDims(ctx.model)[t.k] ELSE OutDims(ctx.model)[t.k]

WriteTensor(ctx, t, v) ==
    IF t.kind = "in" THEN [ctx EXCEPT !.in[t.k] = v] ELSE [ctx EXCEPT !.out[t.k] = v]

(* What tensor(inputs()[index]) may yield for an index outside the vector: *)
(* the element read is whatever lies past its end, so tensor() returns     *)
(* nullptr, some tensor of this interpreter, or the read faults.           *)
Garbage(ctx) == {NullT, FaultT} \cup TensorRefs(ctx)

(* Interpreter::input_tensor(index) == tensor(inputs()[index]): no check   *)
(* of index against inputs().size().                                       *)
input_tensor(ctx, index, u) ==
    IF index \in 0..(NumIn(ctx) - 1) THEN [kind |-> "in", k |-> index + 1] ELSE u

output_tensor(ctx, index, u) ==
    IF index \in 0..(NumOut(ctx) - 1) THEN [kind |-> "out", k |-> index + 1] ELSE u

StoreShared(h, ctx) ==
    [a \in Addr |-> IF a = h \/ heap[a].model = ctx.model THEN ctx ELSE heap[a]]

(* A write through the context pointer reaches that context's interpreter  *)
(* and tensor arena only: TFLiteContext owns both and nothing is static.   *)
Store(h, ctx) == [heap EXCEPT ![h] = ctx]

(* memcpy(dst, src, n * sizeof(float)) for n within both arrays.           *)
Memcpy(dst, src, n) == [j \in 1..Len(dst) |-> IF j <= n THEN src[j] ELSE dst[j]]

Crash(op, h, idx, dst) ==
    /\ call' = [NoCall EXCEPT !.op = op, !.h = h, !.idx = idx, !.ret = -1,
                              !.dst = dst]
    /\ crashed' = TRUE
    /\ UNCHANGED <<heap, pinned, owned>>

Quiet == UNCHANGED <<heap, pinned, owned>>

(* The resolutions of undefined behaviour an action draws from.            *)
UB(t, fault, g) == [t |-> t, fault |-> fault, g |-> g]
UBNone == UB(NullT, FALSE, 0)
UBWild(G) == {UB(NullT, TRUE, -1)} \cup {UB(NullT, FALSE, g) : g \in G}
UBIndex(ctx) == {UB(t, FALSE, 0) : t \in Garbage(ctx)}

----------------------------------------------------------------------------
(* setInputTensor                                                          *)

SentinelCheckOff(h) == FALSE

(* if (interpreterPtr == 0)                                                *)
SentinelCheck(h) == h = Sentinel

setInputTensor(h, idx, data, n, pinOK, ub) ==
    IF SentinelCheck(h)
    THEN Return("setInput", h, idx, -1, <<>>) /\ Quiet
    ELSE IF h \notin Live
    THEN Wild("setInput", h, idx, <<>>, ub.fault, ub.g)
    ELSE LET ctx == heap[h]
             t == input_tensor(ctx, idx, ub.t)
         IN IF t.kind = "fault" THEN Crash("setInput", h, idx, <<>>)
            ELSE IF t.kind = "null" THEN Return("setInput", h, idx, -1, <<>>) /\ Quiet
            ELSE IF ~pinOK THEN Return("setInput", h, idx, -1, <<>>) /\ Quiet
            ELSE /\ heap' = Store(h, WriteTensor(ctx, t, Memcpy(TensorData(ctx, t), data, n)))
                 /\ Return("setInput", h, idx, 0, <<>>)
                 /\ UNCHANGED <<pinned, owned>>

----------------------------------------------------------------------------
(* invoke                                                                  *)

(* What the engine finds where the model's constant tensors live: the      *)
(* FlatBufferModel does not copy the bytes BuildFromBuffer was given.      *)
ModelReads(ctx) ==
    IF ctx.buf \in pinned
    THEN {[st |-> "ok", w |-> Weight(ctx.model)]}
    ELSE {[st |-> "ok", w |-> w] : w \in Val}
            \cup {[st |-> "error", w |-> 0], [st |-> "fault", w |-> 0]}

invoke(h, thr, rd, ub) ==
    IF SentinelCheck(h)
    THEN Return("invoke", h, 0, -1, <<>>) /\ Quiet
    ELSE IF h \notin Live
    THEN Wild("invoke", h, 0, <<>>, ub.fault, ub.g)
    ELSE LET ctx == heap[h]
         IN IF thr THEN Return("invoke", h, 0, -1, <<>>) /\ Quiet
            ELSE IF rd.st = "fault" THEN Crash("invoke", h, 0, <<>>)
            ELSE IF rd.st = "error" THEN Return("invoke", h, 0, -1, <<>>) /\ Quiet
            ELSE /\ heap' = Store(h, [ctx EXCEPT !.out = Engine(ctx.model, rd.w, ctx.in)])
                 /\ Return("invoke", h, 0, 0, <<>>)
                 /\ UNCHANGED <<pinned, owned>>

----------------------------------------------------------------------------
(* getOutputTensor                                                         *)

getOutputTensor(h, idx, cap, n, pinOK, ub) ==
    IF SentinelCheck(h)
    THEN Return("getOutput", h, idx, -1, Filled(cap)) /\ Quiet
    ELSE IF h \notin Live
    THEN Wild("getOutput", h, idx, Filled(cap), ub.fault, ub.g)
    ELSE LET ctx == heap[h]
             t == output_tensor(ctx, idx, ub.t)
         IN IF t.kind = "fault" THEN Crash("getOutput", h, idx, Filled(cap))
            ELSE IF t.kind = "null"
            THEN Return("getOutput", h, idx, -1, Filled(cap)) /\ Quiet
            ELSE IF ~pinOK
            THEN Return("getOutput", h, idx, -1, Filled(cap)) /\ Quiet
            ELSE /\ Return("getOutput", h, idx, 0,
                           Memcpy(Filled(cap), TensorData(ctx, t), n))
                 /\ Quiet

----------------------------------------------------------------------------
(* getInputTensorCount / getOutputTensorCount                              *)

getInputTensorCountUniform(h, ub) ==
    IF SentinelCheck(h)
    THEN Return("getInputCount", h, 0, -1, <<>>) /\ Quiet
    ELSE IF h \notin Live
    THEN Wild("getInputCount", h, 0, <<>>, ub.fault, ub.g)
    ELSE Return("getInputCount", h, 0, NumIn(heap[h]), <<>>) /\ Quiet

(* No try block: inputs().size() reads the vector's bounds and cannot      *)
(* throw.                                                                  *)
getInputTensorCount(h, ub) ==
    IF SentinelCheck(h)
    THEN Return("getInputCount", h, 0, 0, <<>>) /\ Quiet
    ELSE IF h \notin Live
    THEN Wild("getInputCount", h, 0, <<>>, ub.fault, ub.g)
    ELSE Return("getInputCount", h, 0, NumIn(heap[h]), <<>>) /\ Quiet

getOutputTensorCount(h, ub) ==
    IF SentinelCheck(h)
    THEN Return("getOutputCount", h, 0, 0, <<>>) /\ Quiet
    ELSE IF h \notin Live
    THEN Wild("getOutputCount", h, 0, <<>>, ub.fault, ub.g)
    ELSE Return("getOutputCount", h, 0, NumOut(heap[h]), <<>>) /\ Quiet

----------------------------------------------------------------------------
(* getInputTensorShape / getOutputTensorShape                              *)

ShapeLoopUnbounded(rank, cap) == {i \in 0..(rank - 1) : i < rank}

(* for (int i = 0; i < dims->size && i < env->GetArrayLength(shape); i++)  *)
ShapeLoop(rank, cap) == {i \in 0..(rank - 1) : i < rank /\ i < cap}

(* shapeData[i] = dims->data[i] for the indices the loop visits, then      *)
(* ReleaseIntArrayElements(shape, shapeData, 0) copies the array back.     *)
ShapeFill(dims, cap) ==
    [j \in 1..cap |-> IF (j - 1) \in ShapeLoop(Len(dims), cap) THEN dims[j] ELSE 0]

ShapeReturn(op, h, idx, dims, cap) ==
    /\ call' = [NoCall EXCEPT !.op = op, !.h = h, !.idx = idx,
                              !.dst = ShapeFill(dims, cap),
                              !.wr = ShapeLoop(Len(dims), cap)]
    /\ crashed' = FALSE
    /\ Quiet

getInputTensorShape(h, idx, cap, pinOK, ub) ==
    IF SentinelCheck(h)
    THEN Return("getInputShape", h, idx, 0, Blank(cap)) /\ Quiet
    ELSE IF h \notin Live
    THEN Wild("getInputShape", h, idx, Blank(cap), ub.fault, 0)
    ELSE LET ctx == heap[h]
             t == input_tensor(ctx, idx, ub.t)
         IN IF t.kind = "fault" THEN Crash("getInputShape", h, idx, Blank(cap))
            ELSE IF t.kind = "null"
            THEN Return("getInputShape", h, idx, 0, Blank(cap)) /\ Quiet
            ELSE IF ~pinOK
            THEN Return("getInputShape", h, idx, 0, Blank(cap)) /\ Quiet
            ELSE ShapeReturn("getInputShape", h, idx, TensorDims(ctx, t), cap)

getOutputTensorShape(h, idx, cap, pinOK, ub) ==
    IF SentinelCheck(h)
    THEN Return("getOutputShape", h, idx, 0, Blank(cap)) /\ Quiet
    ELSE IF h \notin Live
    THEN Wild("getOutputShape", h, idx, Blank(cap), ub.fault, 0)
    ELSE LET ctx == heap[h]
             t == output_tensor(ctx, idx, ub.t)
         IN IF t.kind = "fault" THEN Crash("getOutputShape", h, idx, Blank(cap))
            ELSE IF t.kind = "null"
            THEN Return("getOutputShape", h, idx, 0, Blank(cap)) /\ Quiet
            ELSE IF ~pinOK
            THEN Return("getOutputShape", h, idx, 0, Blank(cap)) /\ Quiet
            ELSE ShapeReturn("getOutputShape", h, idx, TensorDims(ctx, t), cap)

----------------------------------------------------------------------------
(* The caller.  Arguments a call never reads are drawn once; LenOK is the  *)
(* caller's obligation on copy lengths.                                    *)

LenOK(ctx, t, n) == t.kind \in {"in", "out"} => n <= Len(TensorData(ctx, t))

ZeroArray == [j \in 1..MaxLen |-> 0]

InUB(ctx, idx) == IF idx \in 0..(NumIn(ctx) - 1) THEN {UBNone} ELSE UBIndex(ctx)
OutUB(ctx, idx) == IF idx \in 0..(NumOut(ctx) - 1) THEN {UBNone} ELSE UBIndex(ctx)

SetInputCall(I, D) ==
    /\ ~crashed
    /\ \E h \in Handle, idx \in I :
        IF h = Sentinel
        THEN \E data \in D, n \in 0..MaxLen :
                setInputTensor(h, idx, data, n, TRUE, UBNone)
        ELSE IF h \notin Live
        THEN \E ub \in UBWild({-1, 0}) : setInputTensor(h, idx, ZeroArray, 0, TRUE, ub)
        ELSE \E ub \in InUB(heap[h], idx) :
                IF input_tensor(heap[h], idx, ub.t).kind \in {"null", "fault"}
                THEN setInputTensor(h, idx, ZeroArray, 0, TRUE, ub)
                ELSE \E data \in D \cup {ZeroArray}, n \in 0..MaxLen, pinOK \in BOOLEAN :
                        /\ LenOK(heap[h], input_tensor(heap[h], idx, ub.t), n)
                        /\ ~pinOK => (data = ZeroArray /\ n = 0)
                        /\ setInputTensor(h, idx, data, n, pinOK, ub)

InvokeCall ==
    /\ ~crashed
    /\ \E h \in Handle :
        IF h = Sentinel
        THEN invoke(h, FALSE, [st |-> "ok", w |-> 0], UBNone)
        ELSE IF h \notin Live
        THEN \E ub \in UBWild({-1, 0}) : invoke(h, FALSE, [st |-> "ok", w |-> 0], ub)
        ELSE \E thr \in BOOLEAN, rd \in ModelReads(heap[h]) :
                /\ thr => rd = [st |-> "ok", w |-> 0]
                /\ invoke(h, thr, rd, UBNone)

GetOutputCall(I, C) ==
    /\ ~crashed
    /\ \E h \in Handle, idx \in I, cap \in C :
        IF h = Sentinel
        THEN \E n \in 0..cap : getOutputTensor(h, idx, cap, n, TRUE, UBNone)
        ELSE IF h \notin Live
        THEN \E ub \in UBWild({-1, 0}) : getOutputTensor(h, idx, cap, 0, TRUE, ub)
        ELSE \E ub \in OutUB(heap[h], idx) :
                IF output_tensor(heap[h], idx, ub.t).kind \in {"null", "fault"}
                THEN getOutputTensor(h, idx, cap, 0, TRUE, ub)
                ELSE \E n \in 0..cap, pinOK \in BOOLEAN :
                        /\ LenOK(heap[h], output_tensor(heap[h], idx, ub.t), n)
                        /\ ~pinOK => n = 0
                        /\ getOutputTensor(h, idx, cap, n, pinOK, ub)

GetInputCountCall ==
    /\ ~crashed
    /\ \E h \in Handle :
        IF h # Sentinel /\ h \notin Live
        THEN \E ub \in UBWild({0, 1}) : getInputTensorCount(h, ub)
        ELSE getInputTensorCount(h, UBNone)

GetOutputCountCall ==
    /\ ~crashed
    /\ \E h \in Handle :
        IF h # Sentinel /\ h \notin Live
        THEN \E ub \in UBWild({0, 1}) : getOutputTensorCount(h, ub)
        ELSE getOutputTensorCount(h, UBNone)

GetInputShapeCall(I, C) ==
    /\ ~crashed
    /\ \E h \in Handle, idx \in I, cap \in C :
        IF h = Sentinel
        THEN getInputTensorShape(h, idx, cap, TRUE, UBNone)
        ELSE IF h \notin Live
        THEN \E ub \in UBWild({0}) : getInputTensorShape(h, idx, cap, TRUE, ub)
        ELSE \E ub \in InUB(heap[h], idx), pinOK \in BOOLEAN :
                getInputTensorShape(h, idx, cap, pinOK, ub)

GetOutputShapeCall(I, C) ==
    /\ ~crashed
    /\ \E h \in Handle, idx \in I, cap \in C :
        IF h = Sentinel
        THEN getOutputTensorShape(h, idx, cap, TRUE, UBNone)
        ELSE IF h \notin Live
        THEN \E ub \in UBWild({0}) : getOutputTensorShape(h, idx, cap, TRUE, ub)
        ELSE \E ub \in OutUB(heap[h], idx), pinOK \in BOOLEAN :
                getOutputTensorShape(h, idx, cap, pinOK, ub)

Create == CreateCall(ModelBytes) /\ UNCHANGED <<room, seq, memo>>

Destroy == DestroyCall /\ UNCHANGED <<room, seq, memo>>

SetInput == SetInputCall(Idx, FloatArrays) /\ UNCHANGED <<room, seq, memo>>

Invoke == InvokeCall /\ UNCHANGED <<room, seq, memo>>

GetOutput == GetOutputCall(Idx, 0..MaxLen) /\ UNCHANGED <<room, seq, memo>>

GetInputCount == GetInputCountCall /\ UNCHANGED <<room, seq, memo>>

GetOutputCount == GetOutputCountCall /\ UNCHANGED <<room, seq, memo>>

GetInputShape == GetInputShapeCall(Idx, 0..(MaxLen + 1)) /\ UNCHANGED <<room, seq, memo>>

GetOutputShape == GetOutputShapeCall(Idx, 0..(MaxLen + 1)) /\ UNCHANGED <<room, seq, memo>>

Next ==
    \/ Create
    \/ Destroy
    \/ SetInput
    \/ Invoke
    \/ GetOutput
    \/ GetInputCount
    \/ GetOutputCount
    \/ GetInputShape
    \/ GetOutputShape

Spec == Init /\ [][Next]_vars

(* Two contexts at a time, with the caller's arguments drawn from fewer    *)
(* values: indices 0 and 1 (1 is past the end of a one-slot vector),       *)
(* constant arrays, and arrays of MaxLen elements.                         *)
PairIdx == 0..(MaxLen - 1)
PairArrays == {[j \in 1..MaxLen |-> v] : v \in Val}

PairSetInput == SetInputCall(PairIdx, PairArrays) /\ UNCHANGED <<room, seq, memo>>

PairGetOutput == GetOutputCall(PairIdx, {MaxLen}) /\ UNCHANGED <<room, seq, memo>>

PairGetInputShape == GetInputShapeCall(PairIdx, {MaxLen}) /\ UNCHANGED <<room, seq, memo>>

PairGetOutputShape == GetOutputShapeCall(PairIdx, {MaxLen}) /\ UNCHANGED <<room, seq, memo>>

NextPair ==
    \/ Create
    \/ Destroy
    \/ PairSetInput
    \/ Invoke
    \/ PairGetOutput
    \/ GetInputCount
    \/ GetOutputCount
    \/ PairGetInputShape
    \/ PairGetOutputShape

SpecPair == InitPair /\ [][NextPair]_vars

----------------------------------------------------------------------------
(* One context loaded from the one-input model "A", with the caller        *)
(* following the sequence setInput(i, data, n); invoke(); getOutput(o,     *)
(* buf, m) with n and m the slots' element counts.  seq is how far the     *)
(* sequence has come (stage 9: a step did not return 0), memo is one       *)
(* earlier completion of it, kept to compare later ones with.              *)

SlotLen(h, kind, k) == Len(TensorData(heap[h], [kind |-> kind, k |-> k]))

DetCreate == CreateCall({"A", "garbage"}) /\ seq' = Idle /\ UNCHANGED <<room, memo>>

DetDestroy ==
    /\ DestroyCall
    /\ seq' = Idle
    /\ memo' = IF call'.h # Sentinel /\ memo.h = call'.h THEN NoMemo ELSE memo
    /\ UNCHANGED room

DetOtherSetInput ==
    SetInputCall(PairIdx, PairArrays) /\ seq' = Idle /\ UNCHANGED <<room, memo>>

DetOtherGetOutput ==
    GetOutputCall(PairIdx, {MaxLen}) /\ seq' = Idle /\ UNCHANGED <<room, memo>>

DetSetInput ==
    /\ ~crashed
    /\ \E h \in Live, data \in FloatArrays : \E i \in 0..(NumIn(heap[h]) - 1) :
        LET n == SlotLen(h, "in", i + 1)
        IN /\ setInputTensor(h, i, data, n, TRUE, UBNone)
           /\ seq' = [h |-> h, i |-> i, data |-> SubSeq(data, 1, n), o |-> 0,
                      stage |-> IF call'.ret = 0 /\ ~crashed' THEN 1 ELSE 9]
    /\ UNCHANGED <<room, memo>>

DetInvoke ==
    /\ ~crashed
    /\ \E h \in Handle :
        IF h \in Live
        THEN \E rd \in ModelReads(heap[h]) : invoke(h, FALSE, rd, UBNone)
        ELSE \E ub \in UBWild({-1, 0}) : invoke(h, FALSE, [st |-> "ok", w |-> 0], ub)
    /\ seq' = IF seq.stage = 1 /\ call'.h = seq.h
              THEN [seq EXCEPT !.stage = IF call'.ret = 0 /\ ~crashed' THEN 2 ELSE 9]
              ELSE Idle
    /\ UNCHANGED <<room, memo>>

DetGetOutput ==
    /\ ~crashed
    /\ seq.stage = 2
    /\ seq.h \in Live
    /\ \E o \in 0..(NumOut(heap[seq.h]) - 1) :
        LET m == SlotLen(seq.h, "out", o + 1)
        IN /\ getOutputTensor(seq.h, o, m, m, TRUE, UBNone)
           /\ seq' = [seq EXCEPT !.o = o,
                                 !.stage = IF call'.ret = 0 /\ ~crashed' THEN 3 ELSE 9]
           /\ \/ UNCHANGED memo
              \/ /\ memo = NoMemo
                 /\ memo' = [h |-> seq.h, i |-> seq.i, data |-> seq.data, o |-> o,
                             buf |-> call'.dst]
    /\ UNCHANGED room

NextDet ==
    \/ DetCreate
    \/ DetDestroy
    \/ DetOtherSetInput
    \/ DetOtherGetOutput
    \/ DetSetInput
    \/ DetInvoke
    \/ DetGetOutput

SpecDet == Init /\ [][NextDet]_vars

----------------------------------------------------------------------------
(* Properties.                                                             *)

ValidIn(h, idx) == idx \in 0..(NumIn(heap[h]) - 1)
ValidOut(h, idx) == idx \in 0..(NumOut(heap[h]) - 1)

StatusOps == {"setInput", "invoke", "getOutput"}
ShapeOps == {"getInputShape", "getOutputShape"}
CountOps == {"getInputCount", "getOutputCount"}

Untouched(c) ==
    c.dst = (IF c.op \in ShapeOps THEN Blank(Len(c.dst)) ELSE Filled(Len(c.dst)))

(* C1: a call of setInput, invoke, getOutput, destroy, getInputShape or    *)
(* getOutputShape with handle 0 changes no context and no caller array,    *)
(* reads no context, does not fault, and the first three return -1.        *)
C1_SentinelFailsAtOnce ==
    [][(call'.h = Sentinel /\ call'.op \in StatusOps \cup ShapeOps \cup {"destroy"})
          => /\ heap' = heap
             /\ pinned' = pinned
             /\ ~crashed'
             /\ ~call'.uaf
             /\ Untouched(call')
             /\ call'.wr = {}
             /\ call'.op \in StatusOps => call'.ret = -1]_vars

C1_Witness ==
    /\ call.op = "getOutput"
    /\ call.h = Sentinel
    /\ call.ret = -1
    /\ Len(call.dst) = 2
    /\ Live # {}

(* C2: setInput or getOutput on a live session with a slot index outside   *)
(* 0..count-1 returns -1 and changes no tensor and no caller array.        *)
C2_IndexCheckedAgainstCount ==
    [][(/\ call'.op \in {"setInput", "getOutput"}
        /\ call'.h \in Live
        /\ IF call'.op = "setInput" THEN ~ValidIn(call'.h, call'.idx)
                                    ELSE ~ValidOut(call'.h, call'.idx))
          => /\ call'.ret = -1
             /\ ~crashed'
             /\ heap' = heap
             /\ Untouched(call')]_vars

(* C3: an operation other than create and destroy on a handle that is no   *)
(* live session (never created, or destroyed) reads no released memory,    *)
(* does not fault, and gives its failure result: -1, a count of 0, or an   *)
(* untouched array.                                                        *)
C3_AbsentSessionFails ==
    (call.op \in StatusOps \cup ShapeOps \cup CountOps /\ call.h \notin Live)
        => /\ ~call.uaf
           /\ ~crashed
           /\ call.op \in StatusOps => call.ret = -1
           /\ call.op \in CountOps => call.ret = 0
           /\ Untouched(call)

(* C4: a create that fails returns 0; after every call no byte array is    *)
(* left pinned and the contexts on the native heap are exactly the handles *)
(* create returned and destroy has not yet been given.                     *)
C4_CreateLeaksNothing ==
    /\ pinned = {}
    /\ Live = owned
    /\ call.op = "create" => (call.ret = Sentinel <=> call.path # "ok")
    /\ (call.op = "create" /\ call.ret # Sentinel) => call.ret \in Live

C4_Witness ==
    /\ call.op = "create"
    /\ call.path = "alloc_failed"
    /\ call.ret = Sentinel
    /\ Live = {}

(* C5: getInputCount and getOutputCount return 0 for handle 0 and, for a   *)
(* live session, the number of input and output slots the loaded model     *)
(* declares; setInput, invoke and getOutput do not change those numbers.   *)
C5_Counts ==
    /\ [](/\ (call.op \in CountOps /\ call.h = Sentinel) => (call.ret = 0 /\ ~crashed)
          /\ (call.op = "getInputCount" /\ call.h \in Live)
                => call.ret = Len(InDims(heap[call.h].model))
          /\ (call.op = "getOutputCount" /\ call.h \in Live)
                => call.ret = Len(OutDims(heap[call.h].model)))
    /\ [][(call'.op \in StatusOps /\ call'.h \in Live)
            => /\ heap'[call'.h].model = heap[call'.h].model
               /\ NumIn(heap'[call'.h]) = NumIn(heap[call'.h])
               /\ NumOut(heap'[call'.h]) = NumOut(heap[call'.h])]_vars

C5_Witness ==
    /\ call.op = "getInputCount"
    /\ call.h \in Live
    /\ call.ret = 2
    /\ NumOut(heap[call.h]) = 1

Min(a, b) == IF a < b THEN a ELSE b

ShapeCase ==
    /\ call.op \in ShapeOps
    /\ call.h \in Live
    /\ IF call.op = "getInputShape" THEN ValidIn(call.h, call.idx)
                                    ELSE ValidOut(call.h, call.idx)

ShapeDims ==
    IF call.op = "getInputShape"
    THEN InDims(heap[call.h].model)[call.idx + 1]
    ELSE OutDims(heap[call.h].model)[call.idx + 1]

ShapeWritten ==
    LET cap == Len(call.dst)
        k == Min(Len(ShapeDims), cap)
    IN /\ call.wr = 0..(k - 1)
       /\ \A j \in 1..cap : call.dst[j] = (IF j <= k THEN ShapeDims[j] ELSE 0)

(* C6 as stated: on a live session and a valid slot index the shape        *)
(* queries write exactly the first min(rank, capacity) extents, in order.  *)
C6_ShapeAlwaysWritten == ShapeCase => ShapeWritten

(* C6 as amended: they write exactly the first min(rank, capacity)         *)
(* extents, in order, never at an index >= capacity and leaving the other  *)
(* entries as they were; or, when the destination array cannot be          *)
(* obtained from the runtime, they write nothing.                          *)
C6_ShapeTruncated ==
    ShapeCase
        => /\ \A i \in call.wr : i < Len(call.dst)
           /\ ~crashed
           /\ \/ ShapeWritten
              \/ call.wr = {} /\ Untouched(call)

C6_Witness ==
    /\ ShapeCase
    /\ Len(ShapeDims) = 2
    /\ Len(call.dst) = 1
    /\ call.wr = {0}
    /\ call.dst = <<ShapeDims[1]>>

(* C7: every run of setInput(i, data, n); invoke(); getOutput(o, buf, m)   *)
(* on a live session returns 0 at each step and ends with the same buf as  *)
(* an earlier run with the same i, data and o.                             *)
C7_SameInputSameOutput ==
    /\ seq.stage # 9
    /\ (/\ seq.stage = 3
        /\ memo # NoMemo
        /\ <<memo.h, memo.i, memo.data, memo.o>> = <<seq.h, seq.i, seq.data, seq.o>>)
          => call.dst = memo.buf

(* C8: no fault leaves an operation on a live session: a fault inside a    *)
(* library call is turned into the operation's failure result.             *)
C8_NoFaultEscapes == (call.h \in Live /\ call.op # "none") => ~crashed

(* C9: an operation on one live session leaves every other live session    *)
(* as it was, and create returns no handle that is live.                   *)
C9_SessionsIndependent ==
    [][/\ (call'.op = "create" \/ call'.h \in Live)
            => \A h2 \in Live : h2 # call'.h => heap'[h2] = heap[h2]
       /\ (call'.op = "create" /\ call'.ret # Sentinel) => call'.ret \notin Live]_vars

C9_Witness ==
    /\ Live = {1, 2}
    /\ call.op = "setInput"
    /\ call.ret = 0
    /\ heap[1].model = heap[2].model
    /\ heap[1].in # heap[2].in

(* C10: the model of every live session refers to bytes the bridge still   *)
(* holds.                                                                  *)
C10_ModelBytesHeld == \A h \in Live : heap[h].buf \in pinned

====
